---- MODULE Spec2Model ----
(***************************************************************************)
(* nvidia-power-control (src/main.go): the GPU inventory cache, the        *)
(* clamped power-limit setter, the mode dispatcher and the authenticated   *)
(* HTTP surface, over a model of the NVML device gateway.                  *)
(*                                                                         *)
(* The gateway is the environment: per device it holds a support flag,    *)
(* the limit constraints and the stored limit (all in milliwatts); a      *)
(* write stores exactly the value written.  Any gateway call can fail; a  *)
(* gateway plan names the one call (device, kind) that fails while an     *)
(* operation runs, and the power reading the sensors return meanwhile.    *)
(* At most one device of the host lacks power management.                 *)
(***************************************************************************)
EXTENDS Integers, Sequences, FiniteSets, TLC

\* ------------------------------------------------------------------ bounds
NumDevices == 2

Devices == 0 .. (NumDevices - 1)

\* Requested limits in watts (uint32).  100 is below, 250 inside and 400 above
\* the constraints used below; 4294968 * 1000 exceeds 2^32.
Watts == {100, 250, 400, 4294968}

\* (min, max) constraints in milliwatts a device may report.
ConstraintPairs == { <<100500, 300700>> }

\* Stored limits in milliwatts a device may start with.
InitialLimits == {300700}

\* Instantaneous power readings in milliwatts, and the one read while a
\* gateway call fails.
DrawValues == {35400, 120000}

SteadyDraws == {120000}

\* ------------------------------------------------- uint32 arithmetic
\* A uint32 is kept as two 16-bit limbs, so that the wrapped product of
\* line 184 is computed exactly without leaving the checker's integers.
Two16 == 2 ^ 16

U32(n) == [hi |-> n \div Two16, lo |-> n % Two16]

U32Less(a, b) == a.hi < b.hi \/ (a.hi = b.hi /\ a.lo < b.lo)

\* Value of a uint32 below 2^31.
U32Val(a) == a.hi * Two16 + a.lo

\* limitWatts * 1000 in uint32: (limitWatts * 1000) mod 2^32.
WattsToMilliwatts(limitWatts) ==
    LET wh == limitWatts \div Two16
        wl == limitWatts % Two16
        c  == wl * 1000
    IN  [hi |-> (wh * 1000 + c \div Two16) % Two16, lo |-> c % Two16]

\* ------------------------------------------------------------- records
ZeroGPUInfo ==
    [Index |-> 0, Name |-> "", PowerLimit |-> 0, MinLimit |-> 0,
     MaxLimit |-> 0, PowerUsage |-> 0, Supported |-> FALSE]

DeviceName(index) == "NVIDIA GPU"

\* ------------------------------------------------------------- faults
GatewayCalls == {"handle", "name", "mode", "limit", "constraints", "usage", "set"}

\* What the gateway does while one operation runs: the call that fails (dev
\* is -1 for the calls that take no device) and the sensors' power reading.
NoFaults == [dev : {-1}, call : {"none"}, draw : DrawValues]

InitFaults == [dev : {-1}, call : {"init"}, draw : SteadyDraws]

CountFaults == [dev : {-1}, call : {"count"}, draw : SteadyDraws]

DeviceFaults == [dev : Devices, call : GatewayCalls, draw : SteadyDraws]

GatewayPlans == NoFaults \cup InitFaults \cup CountFaults \cup DeviceFaults

\* The plans that differ for an operation on the single device index.
PlansFor(index) == NoFaults \cup {f \in DeviceFaults : f.dev = index}

Fails(f, index, call) == f.dev = index /\ f.call = call

VARIABLES
    supported,      \* gateway: power management mode enabled, per device
    constraints,    \* gateway: <<min, max>> in milliwatts, per device
    hwLimit,        \* gateway: stored power limit in milliwatts, per device
    gpuCache,       \* var gpuCache []GPUInfo
    phase,          \* where main is: "cli", "config", "applied", "serving", "exit"
    resp,           \* the outcome of the operation served last
    lastSet,        \* the most recent setPowerLimit call and its outcome
    prevSet,        \* the setPowerLimit call before it
    conn,           \* the request handlers running concurrently, per connection
    unfilled        \* of the slice gpuCache holds: who made it, the indices not
                    \* assigned since, and those its maker has assigned

vars == <<supported, constraints, hwLimit, gpuCache, phase, resp, lastSet, prevSet,
          conn, unfilled>>

\* ------------------------------------------------------- getGPUInfo
\* Returns the record built so far, the error ("" is nil) and the number of
\* gateway calls made.  hw is the stored limit at the time of the call.
GetGPUInfo(index, f, hw) ==
    LET i0 == [ZeroGPUInfo EXCEPT !.Index = index]
        i1 == [i0 EXCEPT !.Name = IF Fails(f, index, "name")
                                  THEN "Unknown" ELSE DeviceName(index)]
        i2 == [i1 EXCEPT !.Supported = supported[index]]
        i3 == [i2 EXCEPT !.PowerLimit = hw[index] \div 1000]
        i4 == [i3 EXCEPT !.MinLimit = constraints[index][1] \div 1000,
                         !.MaxLimit = constraints[index][2] \div 1000]
        i5 == [i4 EXCEPT !.PowerUsage = IF Fails(f, index, "usage")
                                        THEN 0 ELSE f.draw \div 1000]
    IN  IF index \notin Devices \/ Fails(f, index, "handle")
        THEN [info |-> i0, err |-> "handle", calls |-> 1]
        ELSE IF Fails(f, index, "mode")
        THEN [info |-> i1, err |-> "mode", calls |-> 3]
        ELSE IF ~supported[index]
        THEN [info |-> i2, err |-> "", calls |-> 3]
        ELSE IF Fails(f, index, "limit")
        THEN [info |-> i2, err |-> "limit", calls |-> 4]
        ELSE IF Fails(f, index, "constraints")
        THEN [info |-> i3, err |-> "constraints", calls |-> 5]
        ELSE [info |-> i5, err |-> "", calls |-> 6]

\* ------------------------------------------------------ setPowerLimit
\* The clamp without its upper branch (lines 191-195).
ClampMilliwattsNoMax(limitWatts, minLimit, maxLimit) ==
    LET limitMW == WattsToMilliwatts(limitWatts)
    IN  IF U32Less(limitMW, U32(minLimit)) THEN minLimit ELSE U32Val(limitMW)

\* The clamp of lines 184-195: the milliwatt value handed to the write.
ClampMilliwatts(limitWatts, minLimit, maxLimit) ==
    LET limitMW == WattsToMilliwatts(limitWatts)
    IN  IF U32Less(limitMW, U32(minLimit)) THEN minLimit
        ELSE IF U32Less(U32(maxLimit), limitMW) THEN maxLimit
        ELSE U32Val(limitMW)

\* setPowerLimit reading the record back before the write instead of after.
SetPowerLimitStaleRead(index, limitWatts, f, hw) ==
    IF index \notin Devices \/ Fails(f, index, "handle") \/ Fails(f, index, "mode")
       \/ ~supported[index] \/ Fails(f, index, "constraints") \/ Fails(f, index, "set")
    THEN [info |-> ZeroGPUInfo, err |-> "failed", hw |-> hw, calls |-> 1,
          writes |-> << >>]
    ELSE LET limitMW == ClampMilliwatts(limitWatts, constraints[index][1],
                                        constraints[index][2])
             r == GetGPUInfo(index, f, hw)
         IN  [info |-> r.info, err |-> r.err,
              hw |-> [hw EXCEPT ![index] = limitMW], calls |-> 4 + r.calls,
              writes |-> << <<index, limitMW>> >>]

\* setPowerLimit without the check of lines 173-175.
SetPowerLimitNoSupportCheck(index, limitWatts, f, hw) ==
    IF index \notin Devices \/ Fails(f, index, "handle") \/ Fails(f, index, "mode")
       \/ Fails(f, index, "constraints") \/ Fails(f, index, "set")
    THEN [info |-> ZeroGPUInfo, err |-> "failed", hw |-> hw, calls |-> 1,
          writes |-> << >>]
    ELSE LET limitMW == ClampMilliwatts(limitWatts, constraints[index][1],
                                        constraints[index][2])
             hw2 == [hw EXCEPT ![index] = limitMW]
             r == GetGPUInfo(index, f, hw2)
         IN  [info |-> r.info, err |-> r.err, hw |-> hw2, calls |-> 4 + r.calls,
              writes |-> << <<index, limitMW>> >>]

\* Returns the record, the error, the stored limits after the call, the
\* number of gateway calls made and the writes issued (<<index, milliwatts>>).
SetPowerLimit(index, limitWatts, f, hw) ==
    LET fail(e, n) == [info |-> ZeroGPUInfo, err |-> e, hw |-> hw,
                       calls |-> n, writes |-> << >>]
    IN  IF index \notin Devices \/ Fails(f, index, "handle") THEN fail("handle", 1)
        ELSE IF Fails(f, index, "mode") THEN fail("mode", 2)
        ELSE IF ~supported[index] THEN fail("unsupported", 2)
        ELSE IF Fails(f, index, "constraints") THEN fail("constraints", 3)
        ELSE
          LET limitMW == ClampMilliwatts(limitWatts, constraints[index][1],
                                         constraints[index][2])
          IN  IF Fails(f, index, "set")
              THEN [info |-> ZeroGPUInfo, err |-> "set", hw |-> hw, calls |-> 4,
                    writes |-> << <<index, limitMW>> >>]
              ELSE
                LET hw2 == [hw EXCEPT ![index] = limitMW]
                    r   == GetGPUInfo(index, f, hw2)
                IN  [info |-> r.info, err |-> r.err, hw |-> hw2,
                     calls |-> 4 + r.calls,
                     writes |-> << <<index, limitMW>> >>]

\* ------------------------------------------------------------- call log
\* The outcome of one setPowerLimit call: its arguments, what it returned,
\* the device's stored limit after it, and the value it wrote (-1: no write).
NoCall == [index |-> -1, watts |-> 0, info |-> ZeroGPUInfo, err |-> "none",
           after |-> 0, written |-> -1]

CallLog(index, limitWatts, r) ==
    [index |-> index, watts |-> limitWatts, info |-> r.info, err |-> r.err,
     after |-> r.hw[index],
     written |-> IF r.writes = << >> THEN -1 ELSE r.writes[1][2]]

\* ------------------------------------------------------------- gateway
GatewayInit ==
    /\ \E u \in Devices \cup {-1} : supported = [d \in Devices |-> d # u]
    /\ \E c \in ConstraintPairs : constraints = [d \in Devices |-> c]
    /\ hwLimit \in [Devices -> InitialLimits]
    /\ \A d \in Devices : /\ constraints[d][1] <= hwLimit[d]
                           /\ hwLimit[d] <= constraints[d][2]

\* ------------------------------------------------------------ initNVML
RECURSIVE SumCalls(_)
SumCalls(rs) == IF rs = << >> THEN 0 ELSE Head(rs).calls + SumCalls(Tail(rs))

\* initNVML storing the record getGPUInfo built so far also when it failed.
InitNVMLKeepPartial(f, hw, cache) ==
    IF f.call = "init" THEN [err |-> "init", cache |-> cache, calls |-> 1]
    ELSE IF f.call = "count" THEN [err |-> "count", cache |-> cache, calls |-> 2]
    ELSE [err   |-> "",
          cache |-> [i \in 1 .. NumDevices |-> GetGPUInfo(i - 1, f, hw).info],
          calls |-> 2]

\* Returns the error, the cache after the call and the gateway calls made.
\* The cache is reset to count zero values and entry i is assigned only when
\* getGPUInfo(i) returns no error.
InitNVML(f, hw, cache) ==
    IF f.call = "init" THEN [err |-> "init", cache |-> cache, calls |-> 1]
    ELSE IF f.call = "count" THEN [err |-> "count", cache |-> cache, calls |-> 2]
    ELSE
      LET count == NumDevices
          rs    == [i \in 1 .. count |-> GetGPUInfo(i - 1, f, hw)]
      IN  [err   |-> "",
           cache |-> [i \in 1 .. count |->
                         IF rs[i].err # "" THEN ZeroGPUInfo ELSE rs[i].info],
           calls |-> 2 + SumCalls(rs)]

\* ------------------------------------------------------- mode dispatch
\* The loops of setPowerLimitsHandler and applyConfigSettings over targets,
\* a sequence of <<index, watts>> in iteration order: an index outside
\* [0, count) is skipped, a failed setPowerLimit is skipped, a successful one
\* appends its record.  acc carries the stored limits, the records appended
\* (updated), the log of the setPowerLimit calls made (sets) and their
\* gateway calls.
\* The loops leaving at the first failed setPowerLimit (break for continue).
RECURSIVE ApplyLimitsAbort(_, _, _, _)
ApplyLimitsAbort(targets, count, f, acc) ==
    IF targets = << >> THEN acc
    ELSE
      LET index == Head(targets)[1]
          watts == Head(targets)[2]
      IN  IF index >= 0 /\ index < count
          THEN LET r == SetPowerLimit(index, watts, f, acc.hw)
               IN  IF r.err # ""
                   THEN [hw |-> r.hw, updated |-> acc.updated,
                         sets |-> Append(acc.sets, CallLog(index, watts, r)),
                         calls |-> acc.calls + r.calls]
                   ELSE ApplyLimitsAbort(Tail(targets), count, f,
                          [hw      |-> r.hw,
                           updated |-> Append(acc.updated, r.info),
                           sets    |-> Append(acc.sets, CallLog(index, watts, r)),
                           calls   |-> acc.calls + r.calls])
          ELSE ApplyLimitsAbort(Tail(targets), count, f, acc)

RECURSIVE ApplyLimits(_, _, _, _)
ApplyLimits(targets, count, f, acc) ==
    IF targets = << >> THEN acc
    ELSE
      LET index == Head(targets)[1]
          watts == Head(targets)[2]
      IN  IF index >= 0 /\ index < count
          THEN LET r == SetPowerLimit(index, watts, f, acc.hw)
               IN  ApplyLimits(Tail(targets), count, f,
                      [hw      |-> r.hw,
                       updated |-> IF r.err # "" THEN acc.updated
                                   ELSE Append(acc.updated, r.info),
                       sets    |-> Append(acc.sets, CallLog(index, watts, r)),
                       calls   |-> acc.calls + r.calls])
          ELSE ApplyLimits(Tail(targets), count, f, acc)

\* The targets of mode "all": every index in [0, count) with the one limit.
AllTargets(count, powerLimit) == [i \in 1 .. count |-> <<i - 1, powerLimit>>]

\* A request body / a config: ManualLimits is the map in the order the range
\* loop happens to visit it.
IsMode(m) == m = "all" \/ m = "manual"

Targets(request, count) ==
    IF request.Mode = "all" THEN AllTargets(count, request.PowerLimit)
    ELSE request.ManualLimits

\* ------------------------------------------------------- HTTP handlers
\* An outcome: the response (status, error, body), the cache and the stored
\* limits the handler leaves, the gateway calls it made and its
\* setPowerLimit calls.
Outcome(status, error, body, cache, hw, calls, sets) ==
    [status |-> status, error |-> error, body |-> body, cache |-> cache,
     hw |-> hw, calls |-> calls, sets |-> sets]

GetGPUsHandler(f) ==
    LET r == InitNVML(f, hwLimit, gpuCache)
    IN  IF r.err # ""
        THEN Outcome(500, r.err, << >>, r.cache, hwLimit, r.calls, << >>)
        ELSE Outcome(200, "", r.cache, r.cache, hwLimit, r.calls, << >>)

\* strconv.Atoi on the path variable: the decimal strings of the integers
\* tried here parse, anything else does not.
IndexValues == -1 .. NumDevices

Atoi(str) ==
    IF \E i \in IndexValues : ToString(i) = str
    THEN [err |-> "", value |-> CHOOSE i \in IndexValues : ToString(i) = str]
    ELSE [err |-> "syntax", value |-> 0]

GetGPUHandler(indexStr, f) ==
    LET a == Atoi(indexStr)
        r == InitNVML(f, hwLimit, gpuCache)
    IN  IF a.err # ""
        THEN Outcome(400, "Invalid GPU index", << >>, gpuCache, hwLimit, 0, << >>)
        ELSE IF r.err # ""
        THEN Outcome(500, r.err, << >>, r.cache, hwLimit, r.calls, << >>)
        ELSE IF a.value < 0 \/ a.value >= Len(r.cache)
        THEN Outcome(404, "GPU index out of range", << >>, r.cache, hwLimit,
                     r.calls, << >>)
        ELSE Outcome(200, "", << r.cache[a.value + 1] >>, r.cache, hwLimit,
                     r.calls, << >>)

\* The handler taking every mode that is not "all" for "manual".
SetPowerLimitsHandlerAnyMode(request, f) ==
    IF ~request.parsed
    THEN Outcome(400, "Invalid request format", << >>, gpuCache, hwLimit, 0, << >>)
    ELSE IF f.call = "count"
    THEN Outcome(500, "count", << >>, gpuCache, hwLimit, 1, << >>)
    ELSE
      LET count == NumDevices
          d == ApplyLimits(Targets(request, count), count, f,
                  [hw |-> hwLimit, updated |-> << >>, sets |-> << >>, calls |-> 1])
          r == InitNVML(f, d.hw, gpuCache)
      IN  Outcome(200, "", d.updated, r.cache, d.hw, d.calls + r.calls, d.sets)

SetPowerLimitsHandler(request, f) ==
    IF ~request.parsed
    THEN Outcome(400, "Invalid request format", << >>, gpuCache, hwLimit, 0, << >>)
    ELSE IF f.call = "count"
    THEN Outcome(500, "count", << >>, gpuCache, hwLimit, 1, << >>)
    ELSE IF ~IsMode(request.Mode)
    THEN Outcome(400, "Invalid mode", << >>, gpuCache, hwLimit, 1, << >>)
    ELSE
      LET count == NumDevices
          d == ApplyLimits(Targets(request, count), count, f,
                  [hw |-> hwLimit, updated |-> << >>, sets |-> << >>, calls |-> 1])
          r == InitNVML(f, d.hw, gpuCache)
      IN  Outcome(200, "", d.updated, r.cache, d.hw, d.calls + r.calls, d.sets)

\* apiKeyMiddleware: next runs only when the header equals config.APIKey.
ConfigAPIKey == "secret"

\* The middleware calling next whatever the header.
ApiKeyMiddlewareOpen(apiKey, next) == next

ApiKeyMiddleware(apiKey, next) ==
    IF apiKey # ConfigAPIKey
    THEN Outcome(401, "Invalid API key", << >>, gpuCache, hwLimit, 0, << >>)
    ELSE next

\* The router of startAPIServer: the three routes behind the middleware.
Route(route, apiKey, arg, f) ==
    ApiKeyMiddleware(apiKey,
        CASE route = "GET /api/gpus"         -> GetGPUsHandler(f)
          [] route = "GET /api/gpus/{index}" -> GetGPUHandler(arg, f)
          [] route = "POST /api/power"       -> SetPowerLimitsHandler(arg, f))

\* ------------------------------------------------------------- inputs
MaxManual == 2

\* The limits tried in mode "all", and those a manual map may hold.
ServerWatts == {250, 400}

ManualWatts == {250}

ManualKeys == 0 .. NumDevices

ManualSeqs ==
    {m \in UNION {[1 .. n -> ManualKeys \X ManualWatts] : n \in 0 .. MaxManual} :
        \A i, j \in DOMAIN m : i # j => m[i][1] # m[j][1]}

Body(mode, powerLimit, manualLimits) ==
    [parsed |-> TRUE, Mode |-> mode, PowerLimit |-> powerLimit,
     ManualLimits |-> manualLimits]

BadBody == [parsed |-> FALSE, Mode |-> "", PowerLimit |-> 0, ManualLimits |-> << >>]

Requests ==
    {Body("all", w, << >>) : w \in ServerWatts}
      \cup {Body("manual", 0, m) : m \in ManualSeqs}
      \cup {Body("eco", 250, << <<0, 250>> >>), BadBody}

IndexStrings == {"abc"} \cup {ToString(i) : i \in IndexValues}

\* Header values that are not the configured key: "" is a missing header.
BadKeys == {"", "wrong"}

\* The bodies sent with a bad key.
ProbeRequests == {Body("all", 250, << >>), Body("manual", 0, << <<0, 250>> >>)}

\* The gateway plans tried on the server: one sensor reading, and the faults
\* that make an operation return an error (the two that getGPUInfo absorbs,
\* of the name and of the usage query, are tried on the command line surface).
ServerPlans ==
    {f \in GatewayPlans : f.draw \in SteadyDraws /\ f.call \notin {"name", "usage"}}

NoRequest == Body("", 0, << >>)

NoResp == [route |-> "none", key |-> "", request |-> NoRequest,
           fault |-> [dev |-> -1, call |-> "none"], torn |-> FALSE, status |-> 0, error |-> "", body |-> << >>, calls |-> 0, sets |-> << >>]

\* --------------------------------------------------------- connections
\* http.ListenAndServe runs every request's handler in a goroutine of its
\* own.  A handler's position and locals:
NumConns == 2

Conns == 1 .. NumConns

NoneUnfilled == [maker |-> 0, left |-> {}, own |-> {}]

Idle == [pc |-> "idle", route |-> "none", index |-> 0, i |-> 0,
         targets |-> << >>, limitMW |-> 0, updated |-> << >>]

\* ------------------------------------------------------------- server
\* One HTTP request served from start to end; requests are served one at a
\* time here, the next one once the response of the last has been sent.
Request(route, apiKey, arg, f) ==
    /\ phase = "serving"
    /\ resp = NoResp
    /\ \E o \in {Route(route, apiKey, arg, f)} :
           /\ gpuCache' = o.cache
           /\ hwLimit' = o.hw
           /\ resp' = [route |-> route, key |-> apiKey,
                       request |-> IF route = "POST /api/power" THEN arg ELSE NoRequest,
                       fault |-> [dev |-> f.dev, call |-> f.call], torn |-> FALSE,
                       status |-> o.status, error |-> o.error, body |-> o.body,
                       calls |-> o.calls, sets |-> o.sets]
    /\ UNCHANGED <<supported, constraints, phase, lastSet, prevSet, conn, unfilled>>

GetGPUs(apiKey, f) == Request("GET /api/gpus", apiKey, "", f)

GetGPU(apiKey, indexStr, f) == Request("GET /api/gpus/{index}", apiKey, indexStr, f)

PostPower(apiKey, request, f) == Request("POST /api/power", apiKey, request, f)

\* json.NewEncoder(w).Encode(...) has written the response and the handler
\* has returned.
ResponseSent ==
    /\ phase = "serving"
    /\ resp # NoResp
    /\ resp' = NoResp
    /\ UNCHANGED <<supported, constraints, hwLimit, gpuCache, phase, lastSet, prevSet, conn, unfilled>>

\* main with no arguments: applyConfigSettings(cfg, count).  body holds the
\* records whose "Power limit set" line is printed.
ApplyConfigSettings(cfg, f) ==
    /\ phase = "config"
    /\ LET count == NumDevices
           d == IF IsMode(cfg.Mode)
                THEN ApplyLimits(Targets(cfg, count), count, f,
                        [hw |-> hwLimit, updated |-> << >>, sets |-> << >>,
                         calls |-> 0])
                ELSE [hw |-> hwLimit, updated |-> << >>, sets |-> << >>, calls |-> 0]
       IN  /\ hwLimit' = d.hw
           /\ resp' = [route |-> "config", key |-> "", request |-> cfg,
                       fault |-> [dev |-> f.dev, call |-> f.call], torn |-> FALSE,
                       status |-> 0, error |-> "", body |-> d.updated,
                       calls |-> d.calls, sets |-> d.sets]
    /\ phase' = "applied"
    /\ UNCHANGED <<supported, constraints, gpuCache, lastSet, prevSet, conn, unfilled>>

\* main, lines 517-532: initNVML fills the cache and the server starts, or
\* the process ends.
StartAPIServer(start, f) ==
    /\ phase = "applied"
    /\ LET r == InitNVML(f, hwLimit, gpuCache)
       IN  IF start /\ r.err = ""
           THEN /\ gpuCache' = r.cache
                /\ phase' = "serving"
           ELSE /\ gpuCache' = gpuCache
                /\ phase' = "exit"
    /\ resp' = NoResp
    /\ UNCHANGED <<supported, constraints, hwLimit, lastSet, prevSet, conn, unfilled>>

Init ==
    /\ GatewayInit
    /\ gpuCache = << >>
    /\ phase = "config"
    /\ resp = NoResp
    /\ lastSet = NoCall
    /\ prevSet = NoCall
    /\ conn = [c \in Conns |-> Idle]
    /\ unfilled = NoneUnfilled

Configs == {r \in Requests : r.parsed}

Next ==
    \/ \E cfg \in Configs, f \in ServerPlans : ApplyConfigSettings(cfg, f)
    \/ \E start \in BOOLEAN, f \in ServerPlans : StartAPIServer(start, f)
    \/ \E f \in ServerPlans : GetGPUs(ConfigAPIKey, f)
    \/ \E str \in IndexStrings, f \in ServerPlans : GetGPU(ConfigAPIKey, str, f)
    \/ \E request \in Requests, f \in ServerPlans : PostPower(ConfigAPIKey, request, f)
    \/ \E k \in BadKeys, f \in NoFaults \cap ServerPlans : GetGPUs(k, f)
    \/ \E k \in BadKeys, str \in {"0", "abc"}, f \in NoFaults \cap ServerPlans :
          GetGPU(k, str, f)
    \/ \E k \in BadKeys, request \in ProbeRequests, f \in NoFaults \cap ServerPlans :
          PostPower(k, request, f)
    \/ ResponseSent

Spec == Init /\ [][Next]_vars

\* ------------------------------------------------- command line surface
\* One --gpu=<index>:<limit> argument (main, lines 459-479).  prevSet keeps
\* the call before this one when this call repeats its arguments.
CliGpuArg(index, limit, f) ==
    /\ IF index >= 0 /\ index < NumDevices
       THEN LET r == SetPowerLimit(index, limit, f, hwLimit)
            IN  /\ hwLimit' = r.hw
                /\ lastSet' = CallLog(index, limit, r)
                /\ prevSet' = IF lastSet.index = index /\ lastSet.watts = limit
                              THEN lastSet ELSE NoCall
       ELSE UNCHANGED <<hwLimit, lastSet, prevSet>>
    /\ UNCHANGED <<supported, constraints, gpuCache, phase, resp, conn, unfilled>>

InitCli ==
    /\ GatewayInit
    /\ gpuCache = << >>
    /\ phase = "cli"
    /\ resp = NoResp
    /\ lastSet = NoCall
    /\ prevSet = NoCall
    /\ conn = [c \in Conns |-> Idle]
    /\ unfilled = NoneUnfilled

NextCli ==
    \E index \in 0 .. NumDevices, limit \in Watts :
       \E f \in PlansFor(index) : CliGpuArg(index, limit, f)

SpecCli == InitCli /\ [][NextCli]_vars

\* ------------------------------------------------- concurrent server
\* The handlers as the goroutines run them: a step is one gateway call (or
\* one run of calls) together with the assignments that follow it, and the
\* steps of different connections interleave.  The gateway answers every
\* call here.
Answering == CHOOSE f \in NoFaults : f.draw \in SteadyDraws

ConcRequests == {Body("all", 400, << >>), Body("manual", 0, << <<1, 250>> >>)}

ConcUnchanged == UNCHANGED <<supported, constraints, phase, lastSet, prevSet>>

\* After a setPowerLimit call returned: the next target, or initNVML.
AfterSet(h) ==
    IF Tail(h.targets) = << >>
    THEN [h EXCEPT !.pc = "initNVML", !.targets = << >>]
    ELSE [h EXCEPT !.pc = "setPowerLimit", !.targets = Tail(h.targets)]

\* A GET request passes the middleware and its handler reaches initNVML
\* (getGPUHandler: after strconv.Atoi succeeded).
AcceptGet(c, route, index) ==
    /\ phase = "serving"
    /\ conn[c].pc = "idle"
    /\ conn' = [conn EXCEPT ![c] = [Idle EXCEPT !.pc = "initNVML", !.route = route,
                                                 !.index = index]]
    /\ UNCHANGED <<hwLimit, gpuCache, resp, unfilled>>
    /\ ConcUnchanged

\* setPowerLimitsHandler, lines 270-289: the body is decoded, the device
\* count read and the loop over the targets entered.
AcceptPost(c, request) ==
    /\ phase = "serving"
    /\ conn[c].pc = "idle"
    /\ LET targets == Targets(request, NumDevices)
       IN  conn' = [conn EXCEPT ![c] =
                      [Idle EXCEPT !.route = "POST /api/power",
                                   !.targets = targets,
                                   !.pc = IF targets = << >> THEN "initNVML"
                                          ELSE "setPowerLimit"]]
    /\ UNCHANGED <<hwLimit, gpuCache, resp, unfilled>>
    /\ ConcUnchanged

\* The loop's range check and setPowerLimit, lines 162-195: handle, mode and
\* constraints are read and the value to write is clamped.
SetPowerLimitBegin(c) ==
    /\ conn[c].pc = "setPowerLimit"
    /\ LET h     == conn[c]
           index == Head(h.targets)[1]
           watts == Head(h.targets)[2]
       IN  IF index >= 0 /\ index < NumDevices /\ supported[index]
           THEN conn' = [conn EXCEPT ![c] =
                           [h EXCEPT !.pc = "write",
                                     !.limitMW = ClampMilliwatts(watts,
                                                    constraints[index][1],
                                                    constraints[index][2])]]
           ELSE conn' = [conn EXCEPT ![c] = AfterSet(h)]
    /\ UNCHANGED <<hwLimit, gpuCache, resp, unfilled>>
    /\ ConcUnchanged

\* nvml.DeviceSetPowerManagementLimit(device, limitMW), line 198.
SetPowerLimitWrite(c) ==
    /\ conn[c].pc = "write"
    /\ hwLimit' = [hwLimit EXCEPT ![Head(conn[c].targets)[1]] = conn[c].limitMW]
    /\ conn' = [conn EXCEPT ![c].pc = "reread"]
    /\ UNCHANGED <<gpuCache, resp, unfilled>>
    /\ ConcUnchanged

\* return getGPUInfo(index), line 204, and the append of the handler.
SetPowerLimitReread(c) ==
    /\ conn[c].pc = "reread"
    /\ LET h == conn[c]
           r == GetGPUInfo(Head(h.targets)[1], Answering, hwLimit)
       IN  conn' = [conn EXCEPT ![c] =
                      AfterSet([h EXCEPT !.updated = Append(h.updated, r.info)])]
    /\ UNCHANGED <<hwLimit, gpuCache, resp, unfilled>>
    /\ ConcUnchanged

\* initNVML, lines 80-92: nvml.Init, the device count and
\* gpuCache = make([]GPUInfo, count).
InitNVMLReset(c) ==
    /\ conn[c].pc = "initNVML"
    /\ gpuCache' = [i \in 1 .. NumDevices |-> ZeroGPUInfo]
    /\ unfilled' = [maker |-> c, left |-> Devices, own |-> {}]
    /\ conn' = [conn EXCEPT ![c].pc = "fill", ![c].i = 0]
    /\ UNCHANGED <<hwLimit, resp>>
    /\ ConcUnchanged

\* One turn of the loop of lines 95-102: gpuCache[i] = getGPUInfo(i), into
\* whatever slice gpuCache holds now.
InitNVMLFill(c) ==
    /\ conn[c].pc = "fill"
    /\ LET h == conn[c]
           r == GetGPUInfo(h.i, Answering, hwLimit)
       IN  /\ gpuCache' = [gpuCache EXCEPT ![h.i + 1] = r.info]
           /\ unfilled' = [unfilled EXCEPT
                              !.left = @ \ {h.i},
                              !.own = IF unfilled.maker = c THEN @ \cup {h.i} ELSE @]
           /\ conn' = [conn EXCEPT ![c].i = h.i + 1,
                                   ![c].pc = IF h.i + 1 < NumDevices THEN "fill"
                                             ELSE "encode"]
    /\ UNCHANGED <<hwLimit, resp>>
    /\ ConcUnchanged

\* The handler writes its response: gpuCache, gpuCache[index] or updatedGPUs.
\* torn tells whether the cache it read was one a refresh had only partly
\* filled: some entries assigned by the refresh that made the slice, others
\* not assigned yet.
Encode(c) ==
    /\ conn[c].pc = "encode"
    /\ LET h == conn[c]
           readsCache == h.route # "POST /api/power"
           missing == h.route = "GET /api/gpus/{index}"
                         /\ (h.index < 0 \/ h.index >= Len(gpuCache))
       IN  resp' = [NoResp EXCEPT
                      !.route = h.route,
                      !.key = ConfigAPIKey,
                      !.status = IF missing THEN 404 ELSE 200,
                      !.body = IF h.route = "POST /api/power" THEN h.updated
                               ELSE IF h.route = "GET /api/gpus" THEN gpuCache
                               ELSE IF missing THEN << >>
                               ELSE << gpuCache[h.index + 1] >>,
                      !.torn = readsCache /\ unfilled.left # {} /\ unfilled.own # {}]
    /\ conn' = [conn EXCEPT ![c] = Idle]
    /\ UNCHANGED <<hwLimit, gpuCache, unfilled>>
    /\ ConcUnchanged

InitConc ==
    /\ GatewayInit
    /\ gpuCache = [i \in 1 .. NumDevices |->
                      GetGPUInfo(i - 1, Answering, hwLimit).info]
    /\ phase = "serving"
    /\ resp = NoResp
    /\ lastSet = NoCall
    /\ prevSet = NoCall
    /\ conn = [c \in Conns |-> Idle]
    /\ unfilled = NoneUnfilled

NextConc ==
    \E c \in Conns :
       \/ AcceptGet(c, "GET /api/gpus", 0)
       \/ \E index \in 0 .. NumDevices : AcceptGet(c, "GET /api/gpus/{index}", index)
       \/ \E request \in ConcRequests : AcceptPost(c, request)
       \/ SetPowerLimitBegin(c)
       \/ SetPowerLimitWrite(c)
       \/ SetPowerLimitReread(c)
       \/ InitNVMLReset(c)
       \/ InitNVMLFill(c)
       \/ Encode(c)

SpecConc == InitConc /\ [][NextConc]_vars

\* ================================================================ claims
ApiRoutes == {"GET /api/gpus", "GET /api/gpus/{index}", "POST /api/power"}

\* A step that serves one HTTP request: resp goes from empty to a response.
ServesRequest == resp = NoResp /\ resp'.route \in ApiRoutes

\* w * 1000 < min and w * 1000 > max over the integers, without the product.
BelowMin(w, min) == min > 0 /\ w <= (min - 1) \div 1000

AboveMax(w, max) == w > max \div 1000

\* The device indices a dispatch is asked to set, in order, and those of them
\* inside [0, count).
TargetIndices(request) ==
    IF request.Mode = "all" THEN [i \in 1 .. NumDevices |-> i - 1]
    ELSE [i \in 1 .. Len(request.ManualLimits) |-> request.ManualLimits[i][1]]

InRange(index) == index >= 0 /\ index < NumDevices

IsDispatch ==
    \/ resp.route = "POST /api/power" /\ resp.status = 200
    \/ resp.route = "config" /\ resp.request.Mode \in {"all", "manual"}

Succeeded(call) == call.err = ""

\* C1: on a supported device the value handed to the gateway write is min
\* when w*1000 < min, max when w*1000 > max and w*1000 otherwise, for every
\* uint32 w.  (Stated as claimed; the code violates it.)
C1_WriteIsClampOfRequest ==
    lastSet.written # -1 =>
       LET w   == lastSet.watts
           min == constraints[lastSet.index][1]
           max == constraints[lastSet.index][2]
       IN  /\ min <= lastSet.written /\ lastSet.written <= max
           /\ lastSet.written = IF BelowMin(w, min) THEN min
                                ELSE IF AboveMax(w, max) THEN max
                                ELSE w * 1000

\* C2: every record with Supported = TRUE returned by a successful read or
\* write (the cache entries, the response body, the records of the
\* setPowerLimit calls that succeeded) has MinLimit <= PowerLimit <= MaxLimit.
WithinBounds(info) ==
    info.Supported => info.MinLimit <= info.PowerLimit /\ info.PowerLimit <= info.MaxLimit

C2_LimitWithinBounds ==
    /\ \A i \in DOMAIN gpuCache : WithinBounds(gpuCache[i])
    /\ \A i \in DOMAIN resp.body : WithinBounds(resp.body[i])
    /\ \A k \in DOMAIN resp.sets :
          Succeeded(resp.sets[k]) => WithinBounds(resp.sets[k].info)

\* C2 witness: a request above the maximum was written and read back at the
\* maximum.
C2_Witness ==
    /\ resp.route = "POST /api/power"
    /\ \E k \in DOMAIN resp.sets :
          /\ resp.sets[k].watts = 400
          /\ Succeeded(resp.sets[k])
          /\ resp.sets[k].info.Supported
          /\ resp.sets[k].info.PowerLimit = resp.sets[k].info.MaxLimit
          /\ resp.sets[k].info.PowerLimit = 300

\* C3 as claimed: a parsed POST /api/power whose mode is neither "all" nor
\* "manual", sent with the right key, is answered 400 InvalidMode without any
\* setPowerLimit call.
HasUnknownMode ==
    /\ resp.route = "POST /api/power"
    /\ resp.key = ConfigAPIKey
    /\ resp.request.parsed
    /\ resp.request.Mode \notin {"all", "manual"}

C3_UnknownModeIs400 ==
    HasUnknownMode =>
       resp.status = 400 /\ resp.error = "Invalid mode" /\ resp.sets = << >>

\* C3 amended: such a request is rejected with 400 InvalidMode, or with 500
\* when the device count query fails; in both cases no setPowerLimit call is
\* made and the stored limits and the cache are as before.
C3_UnknownModeTouchesNothing ==
    [][(ServesRequest /\ HasUnknownMode') =>
          /\ \/ resp'.status = 400 /\ resp'.error = "Invalid mode"
             \/ resp'.status = 500 /\ resp'.error = "count"
                  /\ resp'.fault.call = "count"
          /\ resp'.fault.call # "count" => resp'.status = 400
          /\ resp'.sets = << >>
          /\ hwLimit' = hwLimit
          /\ gpuCache' = gpuCache]_vars

\* C3 witness: a request with an unknown mode was answered 400.
C3_Witness == HasUnknownMode /\ resp.status = 400 /\ resp.error = "Invalid mode"

\* C4: on each of the three routes a request whose X-API-Key is missing or
\* wrong is answered 401, makes no gateway call and leaves the cache and the
\* stored limits as they were.
C4_BadKeyShortCircuits ==
    [][(ServesRequest /\ resp'.key # ConfigAPIKey) =>
          /\ resp'.status = 401
          /\ resp'.calls = 0
          /\ resp'.sets = << >>
          /\ gpuCache' = gpuCache
          /\ hwLimit' = hwLimit]_vars

\* C4 witness: a POST /api/power without the header was answered 401.
C4_Witness ==
    /\ resp.route = "POST /api/power"
    /\ resp.key = ""
    /\ resp.request.Mode = "all"
    /\ resp.status = 401

\* C5: a dispatch calls setPowerLimit once for every targeted index inside
\* [0, count), in order, whatever the earlier calls returned, and for no
\* other index; its result list holds exactly the records of the calls that
\* succeeded, each once.  So mode "all" with one failing device k yields the
\* N-1 other devices.
C5_ResultsAreTheSuccesses ==
    IsDispatch =>
       LET valid == SelectSeq(TargetIndices(resp.request), InRange)
           good  == SelectSeq(resp.sets, Succeeded)
       IN  /\ Len(resp.sets) = Len(valid)
           /\ \A k \in DOMAIN valid : resp.sets[k].index = valid[k]
           /\ Len(resp.body) = Len(good)
           /\ \A k \in DOMAIN good : /\ resp.body[k] = good[k].info
                                      /\ resp.body[k].Index = good[k].index
           /\ \A i, j \in DOMAIN resp.body :
                 i # j => resp.body[i].Index # resp.body[j].Index
           /\ \A d \in Devices :
                 (/\ resp.request.Mode = "all"
                  /\ \A k \in DOMAIN resp.sets :
                        Succeeded(resp.sets[k]) <=> resp.sets[k].index # d)
                 => /\ Len(resp.body) = NumDevices - 1
                    /\ {resp.body[i].Index : i \in DOMAIN resp.body} = Devices \ {d}

\* C5 witness: in mode "all" the first device failed and every other device
\* is in the list.
C5_Witness ==
    /\ resp.route = "POST /api/power"
    /\ resp.status = 200
    /\ resp.request.Mode = "all"
    /\ ~Succeeded(resp.sets[1])
    /\ Len(resp.body) = NumDevices - 1
    /\ \A i \in DOMAIN resp.body : resp.body[i].Index = i

\* C6 as claimed: setPowerLimit on a device without power management returns
\* the unsupported error and writes nothing.
OnUnsupported(call) == ~supported[call.index]

C6_UnsupportedError ==
    \A k \in DOMAIN resp.sets :
       OnUnsupported(resp.sets[k]) =>
          resp.sets[k].err = "unsupported" /\ resp.sets[k].written = -1

\* C6 amended: setPowerLimit on such a device always fails without a write
\* and without changing the stored limit, with the unsupported error unless
\* its handle or mode query failed (then with that gateway error); this also
\* when a manual map names the device; and the device's cache record has
\* Supported = FALSE and zero limit fields.
C6_UnsupportedNeverWritten ==
    [][/\ \A d \in Devices : ~supported[d] => hwLimit'[d] = hwLimit[d]
       /\ \A k \in DOMAIN resp'.sets :
             OnUnsupported(resp'.sets[k]) =>
                /\ resp'.sets[k].written = -1
                /\ resp'.sets[k].info = ZeroGPUInfo
                /\ resp'.sets[k].err \in {"unsupported", "handle", "mode"}
                /\ resp'.sets[k].err # "unsupported" =>
                      /\ resp'.fault.dev = resp'.sets[k].index
                      /\ resp'.fault.call = resp'.sets[k].err
       /\ \A i \in DOMAIN gpuCache' :
             ~supported[i - 1] =>
                /\ ~gpuCache'[i].Supported
                /\ gpuCache'[i].PowerLimit = 0
                /\ gpuCache'[i].MinLimit = 0
                /\ gpuCache'[i].MaxLimit = 0]_vars

\* C6 witness: a manual map named a device without power management.
C6_Witness ==
    /\ resp.route = "POST /api/power"
    /\ resp.status = 200
    /\ resp.request.Mode = "manual"
    /\ \E k \in DOMAIN resp.sets :
          /\ OnUnsupported(resp.sets[k])
          /\ resp.sets[k].err = "unsupported"
          /\ gpuCache # << >>
          /\ gpuCache[resp.sets[k].index + 1].Name = DeviceName(resp.sets[k].index)

\* C7 as claimed, and that only for two calls that both succeed: a
\* setPowerLimit(i, w) that directly follows a setPowerLimit(i, w) leaves the
\* stored limit and returns the record that the first call did.
Repeated == prevSet.index # -1

C7_SecondCallSameAsFirst ==
    (Repeated /\ prevSet.err = "" /\ lastSet.err = "") =>
       lastSet.after = prevSet.after /\ lastSet.info = prevSet.info

\* C7 amended: once the first call has written, the second leaves the stored
\* limit as the first did; when both calls succeed their records agree in
\* every field but the name and the power usage, which are read anew.
SameLimits(a, b) ==
    /\ a.Index = b.Index
    /\ a.Supported = b.Supported
    /\ a.PowerLimit = b.PowerLimit
    /\ a.MinLimit = b.MinLimit
    /\ a.MaxLimit = b.MaxLimit

C7_IdempotentWhenBothSucceed ==
    Repeated =>
       /\ prevSet.err \in {"", "limit"} => lastSet.after = prevSet.after
       /\ (Succeeded(prevSet) /\ Succeeded(lastSet)) =>
             /\ lastSet.after = prevSet.after
             /\ SameLimits(lastSet.info, prevSet.info)

\* C7 witness: two successful calls in a row whose records differ in the
\* power usage only.
C7_Witness ==
    /\ Repeated
    /\ Succeeded(prevSet) /\ Succeeded(lastSet)
    /\ lastSet.written = 250000
    /\ lastSet.info.PowerLimit = 250
    /\ lastSet.info.PowerUsage # prevSet.info.PowerUsage

\* C10 as claimed: after a refresh that succeeded although the limit or
\* constraint query of a supported device failed, the cache entry of that
\* device is the record built so far.
RefreshedWithFailedQuery ==
    /\ resp.route = "GET /api/gpus"
    /\ resp.status = 200
    /\ resp.fault.call \in {"limit", "constraints"}
    /\ supported[resp.fault.dev]

C10_PartialRecordCached ==
    RefreshedWithFailedQuery =>
       LET e == gpuCache[resp.fault.dev + 1]
       IN  /\ e.Index = resp.fault.dev
           /\ e.Name = DeviceName(resp.fault.dev)
           /\ e.Supported

\* C10 amended: the cache entry of that device is the zero value (index 0,
\* empty name, Supported = FALSE, zero limits), and the entry of every other
\* device is its full record.
C10_FailedRecordIsZero ==
    RefreshedWithFailedQuery =>
       /\ Len(gpuCache) = NumDevices
       /\ gpuCache[resp.fault.dev + 1] = ZeroGPUInfo
       /\ \A d \in Devices \ {resp.fault.dev} :
             LET e == gpuCache[d + 1]
             IN  /\ e.Index = d
                 /\ e.Name = DeviceName(d)
                 /\ e.Supported = supported[d]
                 /\ e.PowerLimit = IF supported[d] THEN hwLimit[d] \div 1000 ELSE 0
                 /\ e.MaxLimit = IF supported[d] THEN constraints[d][2] \div 1000 ELSE 0

\* C10 witness: the constraint query of device 1 failed during a refresh.
C10_Witness ==
    /\ RefreshedWithFailedQuery
    /\ resp.fault.dev = 1
    /\ resp.fault.call = "constraints"
    /\ gpuCache[2] = ZeroGPUInfo
    /\ gpuCache[1].Supported

\* C8 as claimed: no handler ever reads a cache that a refresh has filled
\* only in part.
C8_NoTornCacheRead == ~resp.torn

\* C9 as claimed: at most one connection at a time is inside a setPowerLimit
\* (past its constraint read, before the end of its re-read) or inside a
\* refresh (past its reset, before its last per-device read).
InGateway(c) == conn[c].pc \in {"write", "reread", "fill"}

C9_GatewayCallsSerialized ==
    \A c1, c2 \in Conns : (InGateway(c1) /\ InGateway(c2)) => c1 = c2

\* C11 as claimed: whenever setPowerLimit returns an error for a device, the
\* stored power limit of every device is what it was before the call.  (The
\* code violates it: the read-back of line 204 can fail after the write of
\* line 198 has succeeded.)
C11_ErrorLeavesLimitUnchanged ==
    [][~Succeeded(lastSet') => hwLimit' = hwLimit]_vars

\* The consequence C11 draws for a dispatch (POST /api/power, or the
\* configuration applied at startup): every device whose stored limit the
\* dispatch changed is in its list of updated devices.  It fails with it.
C11_ChangedDevicesAreListed ==
    [][(IsDispatch' /\ resp' # resp) =>
          \A d \in Devices :
             hwLimit'[d] # hwLimit[d] =>
                \E k \in DOMAIN resp'.body : resp'.body[k].Index = d]_vars

====
